---- MODULE Spec2Model ----
(***************************************************************************)
(* Model of src/components/ResearchForm.tsx: a react-hook-form form with a *)
(* zod schema, an image preview read through a FileReader, a document name *)
(* and a submit handler that notifies, forwards and resets.                *)
(*                                                                         *)
(* Optional values (File | undefined, string | null) are sets with at most *)
(* one element: {} is absent, {x} is present.  Text is a sequence of       *)
(* characters.  One step of the model is one task or one continuation of   *)
(* the browser's event loop.  The continuations of handleSubmit are        *)
(* microtasks, which the event loop drains before it takes the next task:  *)
(* input events and reader.onload are taken only when pc = "idle".         *)
(***************************************************************************)
EXTENDS Integers, Sequences, FiniteSets, TLC

\* ---------------------------------------------------------------- bounds
MaxNameLen == 1       \* longest title / researcher text typed
MaxAbstractLen == 10  \* longest abstract typed
NumImages == 2        \* distinct image files the user can pick
NumDocs == 1          \* distinct document files the user can pick
MaxReads == 2         \* FileReader reads in flight at once

\* ------------------------------------------------- constants of formSchema
MinTitleLen == 1
MinAbstractLen == 10
MinResearcherLen == 1

VARIABLES
    values,        \* useForm: the draft (title, abstract, researcher, image, researchFile)
    errors,        \* useForm: formState.errors, field name -> message
    isSubmitting,  \* useForm: formState.isSubmitting
    isSubmitted,   \* useForm: formState.isSubmitted (turns on re-validation on change)
    imagePreview,  \* useState<string | null>
    fileName,      \* useState<string | null>
    readers,       \* FileReaders whose read has not completed: image -> count
    onSubmit,      \* the onSubmit prop: {} when not supplied
    pc,            \* position of the submit attempt in flight, "idle" when none
    data,          \* handleSubmit's fieldValues: the values handed to the resolver
                   \* and to handleFormSubmit (the empty draft when no attempt runs)
    trace,         \* what the handling of the latest event emitted (log, toast, onSubmit)
    pre,           \* the draft and the derived state when the latest event, if a
                   \* submit, arrived ({} for any other event)
    lastOp,        \* the latest event
    lastArg        \* the file the latest change event carried ({} when none)

vars == <<values, errors, isSubmitting, isSubmitted, imagePreview, fileName,
          readers, onSubmit, pc, data, trace, pre, lastOp, lastArg>>

\* ------------------------------------------------------------------ data
Null == {}
Some(x) == {x}

Text(n) == [i \in 1..n |-> "x"]
NameTexts == {Text(n) : n \in 0..MaxNameLen}
AbstractTexts == {Text(n) : n \in ({0, MinAbstractLen - 1} \cup (MinAbstractLen..MaxAbstractLen))}

Images == 1..NumImages
Docs == 1..NumDocs

\* FileReader.readAsDataURL: the data URL of a file's contents.
DataURL(f) == [scheme |-> "data", of |-> f]
\* File.name
NameOf(f) == [name |-> "doc", of |-> f]

\* The draft after construction and after reset(): useForm is given no
\* defaultValues, the text inputs are empty, no file is set.
EmptyDraft ==
    [title |-> <<>>, abstract |-> <<>>, researcher |-> <<>>,
     image |-> Null, researchFile |-> Null]

NoErrors == [f \in {} |-> ""]

\* ------------------------------------------------------------ validation
\* formSchema: the string rules in key order; image and researchFile are
\* optional FileLists and raise no issue.
formSchema_min9 ==
    << [path |-> "title", min |-> MinTitleLen, message |-> "title required"],
       [path |-> "abstract", min |-> MinAbstractLen - 1, message |-> "abstract needs 10 characters"],
       [path |-> "researcher", min |-> MinResearcherLen, message |-> "researcher required"] >>

formSchema ==
    << [path |-> "title", min |-> MinTitleLen, message |-> "title required"],
       [path |-> "abstract", min |-> MinAbstractLen, message |-> "abstract needs 10 characters"],
       [path |-> "researcher", min |-> MinResearcherLen, message |-> "researcher required"] >>

\* zod's parse: the issues of a draft, in schema order.
Failing(d, rule) == Len(d[rule.path]) < rule.min
Issues(d) == SelectSeq(formSchema, LAMBDA rule : Failing(d, rule))

\* zodResolver: the first issue of each path becomes that field's error.
FirstIssue(iss, p) == iss[CHOOSE i \in 1..Len(iss) :
                            /\ iss[i].path = p
                            /\ \A j \in 1..(i - 1) : iss[j].path # p]
zodResolver(d) ==
    LET iss == Issues(d)
        paths == {iss[i].path : i \in 1..Len(iss)}
    IN  [p \in paths |-> FirstIssue(iss, p).message]

\* ------------------------------------------------------------- bookkeeping
\* trace, pre, lastOp and lastArg observe the latest event; no action reads
\* them.
Snapshot ==
    [values |-> values, imagePreview |-> imagePreview, fileName |-> fileName]

Event(op, arg) ==
    /\ pre' = IF op = "submit" THEN Some(Snapshot) ELSE Null
    /\ lastOp' = op
    /\ lastArg' = arg

Reading == {f \in Images : readers[f] > 0}
NumReading == LET Sum[S \in SUBSET Images] ==
                      IF S = {} THEN 0
                      ELSE LET f == CHOOSE g \in S : TRUE
                           IN  readers[f] + Sum[S \ {f}]
              IN  Sum[Images]

Init ==
    /\ values = EmptyDraft
    /\ errors = NoErrors
    /\ isSubmitting = FALSE
    /\ isSubmitted = FALSE
    /\ imagePreview = Null
    /\ fileName = Null
    /\ readers = [f \in Images |-> 0]
    /\ onSubmit \in {Null, Some("callback")}
    /\ pc = "idle"
    /\ data = EmptyDraft
    /\ trace = <<>>
    /\ pre = Null
    /\ lastOp = "mount"
    /\ lastArg = Null

\* --------------------------------------------------------- registered inputs
\* register(name): a change of a registered text input stores the value; once
\* the form has been submitted (reValidateMode onChange) the schema is run
\* again and the error of the changed field alone is set or removed.
Revalidated(name, d) ==
    LET errs == zodResolver(d)
        keep == (DOMAIN errors) \ {name}
        dom  == keep \cup ({name} \cap DOMAIN errs)
    IN  [p \in dom |-> IF p = name THEN errs[p] ELSE errors[p]]

Change(name, v) ==
    /\ pc = "idle"
    /\ values[name] # v
    /\ values' = [values EXCEPT ![name] = v]
    /\ errors' = IF isSubmitted THEN Revalidated(name, values') ELSE errors
    /\ trace' = <<>>
    /\ Event("change", Null)
    /\ UNCHANGED <<isSubmitting, isSubmitted, imagePreview, fileName, readers,
                   onSubmit, pc, data>>

ChangeTitle == \E v \in NameTexts : Change("title", v)
ChangeAbstract == \E v \in AbstractTexts : Change("abstract", v)
ChangeResearcher == \E v \in NameTexts : Change("researcher", v)

\* ------------------------------------------------------------- file inputs
\* handleImageChange: files is e.target.files?.[0], Null when the picker was
\* cancelled.
handleImageChange_unguarded(files) ==
    /\ pc = "idle"
    /\ values' = [values EXCEPT !.image = files]
    /\ IF files # Null
       THEN \E f \in files :
               /\ NumReading < MaxReads
               /\ readers' = [readers EXCEPT ![f] = @ + 1]
       ELSE UNCHANGED readers
    /\ trace' = <<>>
    /\ Event("image", files)
    /\ UNCHANGED <<errors, isSubmitting, isSubmitted, imagePreview, fileName,
                   onSubmit, pc, data>>

handleImageChange(files) ==
    /\ pc = "idle"
    /\ IF files # Null
       THEN \E f \in files :
               /\ NumReading < MaxReads
               /\ readers' = [readers EXCEPT ![f] = @ + 1]
               /\ values' = [values EXCEPT !.image = Some(f)]
       ELSE UNCHANGED <<readers, values>>
    /\ trace' = <<>>
    /\ Event("image", files)
    /\ UNCHANGED <<errors, isSubmitting, isSubmitted, imagePreview, fileName,
                   onSubmit, pc, data>>

ImageChange == \E files \in {Null} \cup {Some(f) : f \in Images} : handleImageChange(files)

\* reader.onload: the read of f completes, in any order with other reads.  A
\* read that fails calls no handler (no onerror is installed): it stays in
\* readers for good.
ReaderOnLoad(f) ==
    /\ pc = "idle"
    /\ readers[f] > 0
    /\ readers' = [readers EXCEPT ![f] = @ - 1]
    /\ imagePreview' = Some(DataURL(f))
    /\ trace' = <<>>
    /\ Event("load", Some(f))
    /\ UNCHANGED <<values, errors, isSubmitting, isSubmitted, fileName,
                   onSubmit, pc, data>>

ImageLoaded == \E f \in Images : ReaderOnLoad(f)

\* handleFileChange
handleFileChange(files) ==
    /\ pc = "idle"
    /\ IF files # Null
       THEN \E f \in files :
               /\ fileName' = Some(NameOf(f))
               /\ values' = [values EXCEPT !.researchFile = Some(f)]
       ELSE UNCHANGED <<fileName, values>>
    /\ trace' = <<>>
    /\ Event("document", files)
    /\ UNCHANGED <<errors, isSubmitting, isSubmitted, imagePreview, readers,
                   onSubmit, pc, data>>

FileChange == \E files \in {Null} \cup {Some(f) : f \in Docs} : handleFileChange(files)

\* ------------------------------------------------------------------- reset
\* useForm's reset() without arguments: the draft and the form state go back
\* to their initial values.
reset ==
    /\ values' = EmptyDraft
    /\ errors' = NoErrors
    /\ isSubmitted' = FALSE
    /\ isSubmitting' = FALSE

ResetClick_keepsFileName ==
    /\ pc = "idle"
    /\ reset
    /\ imagePreview' = Null
    /\ trace' = <<>>
    /\ Event("reset", Null)
    /\ UNCHANGED <<fileName, readers, onSubmit, pc, data>>

\* The reset button's onClick.
ResetClick ==
    /\ pc = "idle"
    /\ reset
    /\ imagePreview' = Null
    /\ fileName' = Null
    /\ trace' = <<>>
    /\ Event("reset", Null)
    /\ UNCHANGED <<readers, onSubmit, pc, data>>

\* ------------------------------------------------------------------ submit
\* handleSubmit(handleFormSubmit), first part: the submit event of the form.
\* The submit button is disabled while isSubmitting.  The values are
\* captured and isSubmitting is raised before the resolver runs.
SubmitTrigger ==
    /\ pc = "idle"
    /\ ~isSubmitting
    /\ data' = values
    /\ isSubmitting' = TRUE
    /\ pc' = "validate"
    /\ trace' = <<>>
    /\ Event("submit", Null)
    /\ UNCHANGED <<values, errors, isSubmitted, imagePreview, fileName, readers,
                   onSubmit>>

Resolve_ignoresErrors ==
    /\ pc = "validate"
    /\ errors' = zodResolver(data)
    /\ pc' = "handler"
    /\ UNCHANGED <<values, isSubmitting, isSubmitted, imagePreview, fileName,
                   readers, onSubmit, data, trace, pre, lastOp, lastArg>>

\* handleSubmit, second part: the resolver's verdict.  With errors the
\* handler is skipped.
Resolve ==
    /\ pc = "validate"
    /\ errors' = zodResolver(data)
    /\ pc' = IF errors' = NoErrors THEN "handler" ELSE "finish"
    /\ UNCHANGED <<values, isSubmitting, isSubmitted, imagePreview, fileName,
                   readers, onSubmit, data, trace, pre, lastOp, lastArg>>

\* handleFormSubmit, lines 64-69: console.log and the success toast.
HandlerNotify ==
    /\ pc = "handler"
    /\ trace' = trace \o << [kind |-> "log", data |-> data],
                            [kind |-> "toast", variant |-> "success"] >>
    /\ pc' = "callback"
    /\ UNCHANGED <<values, errors, isSubmitting, isSubmitted, imagePreview,
                   fileName, readers, onSubmit, data, pre, lastOp, lastArg>>

\* handleFormSubmit, lines 71-73: the callback, when supplied, is called and
\* returns or throws.
HandlerCallback ==
    /\ pc = "callback"
    /\ IF onSubmit # Null
       THEN \E outcome \in {"returns", "throws"} :
               /\ trace' = Append(trace, [kind |-> "onSubmit", data |-> data,
                                          outcome |-> outcome])
               /\ pc' = IF outcome = "returns" THEN "reset" ELSE "catch"
       ELSE /\ trace' = trace
            /\ pc' = "reset"
    /\ UNCHANGED <<values, errors, isSubmitting, isSubmitted, imagePreview,
                   fileName, readers, onSubmit, data, pre, lastOp, lastArg>>

HandlerReset_keepsPreview ==
    /\ pc = "reset"
    /\ reset
    /\ fileName' = Null
    /\ pc' = "finish"
    /\ UNCHANGED <<imagePreview, readers, onSubmit, data, trace, pre, lastOp, lastArg>>

\* handleFormSubmit, lines 75-78.
HandlerReset ==
    /\ pc = "reset"
    /\ reset
    /\ imagePreview' = Null
    /\ fileName' = Null
    /\ pc' = "finish"
    /\ UNCHANGED <<readers, onSubmit, data, trace, pre, lastOp, lastArg>>

HandlerCatch_resets ==
    /\ pc = "catch"
    /\ trace' = Append(trace, [kind |-> "toast", variant |-> "destructive"])
    /\ reset
    /\ imagePreview' = Null
    /\ fileName' = Null
    /\ pc' = "finish"
    /\ UNCHANGED <<readers, onSubmit, data, pre, lastOp, lastArg>>

\* handleFormSubmit, lines 79-85: the catch block.
HandlerCatch ==
    /\ pc = "catch"
    /\ trace' = Append(trace, [kind |-> "toast", variant |-> "destructive"])
    /\ pc' = "finish"
    /\ UNCHANGED <<values, errors, isSubmitting, isSubmitted, imagePreview,
                   fileName, readers, onSubmit, data, pre, lastOp, lastArg>>

SubmitFinish_staysSubmitting ==
    /\ pc = "finish"
    /\ isSubmitted' = TRUE
    /\ pc' = "idle"
    /\ data' = EmptyDraft
    /\ UNCHANGED <<values, errors, isSubmitting, imagePreview, fileName, readers,
                   onSubmit, trace, pre, lastOp, lastArg>>

\* handleSubmit, last part: the attempt is over.
SubmitFinish ==
    /\ pc = "finish"
    /\ isSubmitting' = FALSE
    /\ isSubmitted' = TRUE
    /\ pc' = "idle"
    /\ data' = EmptyDraft
    /\ UNCHANGED <<values, errors, imagePreview, fileName, readers, onSubmit,
                   trace, pre, lastOp, lastArg>>

SubmitStep ==
    \/ Resolve
    \/ HandlerNotify
    \/ HandlerCallback
    \/ HandlerReset
    \/ HandlerCatch
    \/ SubmitFinish

Next ==
    \/ ChangeTitle
    \/ ChangeAbstract
    \/ ChangeResearcher
    \/ ImageChange
    \/ ImageLoaded
    \/ FileChange
    \/ ResetClick
    \/ SubmitTrigger
    \/ Resolve
    \/ HandlerNotify
    \/ HandlerCallback
    \/ HandlerReset
    \/ HandlerCatch
    \/ SubmitFinish

Spec == Init /\ [][Next]_vars

\* The continuations of a submit attempt are microtasks: once the attempt has
\* started the event loop runs them to the end.
FairSpec == Spec /\ WF_vars(SubmitStep)

\* ------------------------------------------------------------ observations
Toasts == SelectSeq(trace, LAMBDA e : e.kind = "toast")
Calls == SelectSeq(trace, LAMBDA e : e.kind = "onSubmit")
Logs == SelectSeq(trace, LAMBDA e : e.kind = "log")
SuccessToasts == SelectSeq(trace, LAMBDA e : e.kind = "toast" /\ e.variant = "success")
FailureToasts == SelectSeq(trace, LAMBDA e : e.kind = "toast" /\ e.variant = "destructive")
Threw == \E i \in 1..Len(trace) : trace[i].kind = "onSubmit" /\ trace[i].outcome = "throws"

\* The fields of a draft that break the rules as the specification words them.
ViolatedFields(d) ==
    {f \in {"title"} : d.title = <<>>}
      \cup {f \in {"abstract"} : Len(d.abstract) < 10}
      \cup {f \in {"researcher"} : d.researcher = <<>>}

MessageOf(f) == LET i == CHOOSE j \in 1..Len(formSchema) : formSchema[j].path = f
                IN  formSchema[i].message

\* A submit attempt is the latest event; it is over when pc is back to "idle".
InAttempt == lastOp = "submit"
AttemptOver == lastOp = "submit" /\ pc = "idle"
InHandler == pc \in {"handler", "callback", "reset", "catch"}

AllEmpty ==
    /\ values = EmptyDraft
    /\ imagePreview = Null
    /\ fileName = Null

KeptFrom(p) ==
    /\ values = p.values
    /\ imagePreview = p.imagePreview
    /\ fileName = p.fileName

\* ------------------------------------------------------------------ claims

\* C1: a submit of a draft with an empty title, an empty researcher or an
\* abstract shorter than 10 characters is rejected: the callback is never
\* invoked, the draft keeps its values, and once the attempt is over the
\* error map holds the message of each violated field and of no other field.
C1_InvalidRejected ==
    InAttempt =>
        \A p \in pre :
            ViolatedFields(p.values) # {} =>
                /\ Calls = <<>>
                /\ values = p.values
                /\ pc = "idle" =>
                      /\ DOMAIN errors = ViolatedFields(p.values)
                      /\ \A f \in DOMAIN errors : errors[f] = MessageOf(f)

C1_Witness ==
    /\ AttemptOver
    /\ DOMAIN errors = {"abstract"}
    /\ Len(values.abstract) = 9
    /\ onSubmit # Null

\* C2 as stated: every submit of a valid draft invokes the supplied callback
\* exactly once with the values at submit time, emits a success notification
\* and ends with the draft, the preview and the file name empty.
C2_AsStated ==
    AttemptOver =>
        \A p \in pre :
            ViolatedFields(p.values) = {} =>
                /\ Len(Calls) = (IF onSubmit # Null THEN 1 ELSE 0)
                /\ \A i \in 1..Len(Calls) : Calls[i].data = p.values
                /\ Len(SuccessToasts) = 1
                /\ AllEmpty

\* C2 amended: the callback is invoked exactly once with the values at submit
\* time and a success notification is emitted; the form ends empty when the
\* callback returned or was not supplied.
C2_ValidSubmitted ==
    AttemptOver =>
        \A p \in pre :
            ViolatedFields(p.values) = {} =>
                /\ Len(Calls) = (IF onSubmit # Null THEN 1 ELSE 0)
                /\ \A i \in 1..Len(Calls) : Calls[i].data = p.values
                /\ Len(SuccessToasts) = 1
                /\ ~Threw => AllEmpty

C2_Witness ==
    /\ AttemptOver
    /\ Len(Calls) = 1
    /\ ~Threw
    /\ AllEmpty
    /\ \E p \in pre : /\ p.values.image # Null
                      /\ p.values.researchFile # Null
                      /\ p.imagePreview # Null
                      /\ Calls[1].data = p.values

\* C3: the notification collaborator receives at most one message per submit
\* attempt, the attempt in which the callback throws included.
C3_AtMostOneToast == InAttempt => Len(Toasts) <= 1

\* C4: when the callback throws, a failure notification is emitted and nothing
\* is reset: the draft, the preview and the file name keep their pre-submit
\* values, and validation accepts the draft again.
C4_ThrowKeepsDraft ==
    (InAttempt /\ Threw /\ pc \in {"finish", "idle"}) =>
        \A p \in pre :
            /\ Len(FailureToasts) = 1
            /\ KeptFrom(p)
            /\ zodResolver(values) = NoErrors
            /\ pc = "idle" => ENABLED SubmitTrigger

C4_Witness ==
    /\ AttemptOver
    /\ Threw
    /\ imagePreview # Null
    /\ fileName # Null
    /\ values.image # Null

\* C5: the reset button clears title, abstract, researcher, the preview and
\* the file name at once, with no validation (no error appears for the now
\* empty draft), no notification and no call of the callback.
C5_ResetClears ==
    lastOp = "reset" =>
        /\ values.title = <<>>
        /\ values.abstract = <<>>
        /\ values.researcher = <<>>
        /\ imagePreview = Null
        /\ fileName = Null
        /\ errors = NoErrors
        /\ trace = <<>>
        /\ pc = "idle"
        /\ ~isSubmitting

C5_Witness ==
    /\ lastOp = "reset"
    /\ Reading # {}
    /\ values = EmptyDraft

C7_AsStated ==
    InAttempt =>
        \A p \in pre :
            ViolatedFields(p.values) # {} =>
                /\ trace = <<>>
                /\ ~InHandler
                /\ ~isSubmitting

\* C7 amended: such an attempt emits nothing (no log, notification or callback)
\* and never runs the handler body, so nothing is reset; isSubmitting is true
\* only while the resolver validates and is false when the attempt is over.
C7_InvalidNoHandler ==
    InAttempt =>
        \A p \in pre :
            ViolatedFields(p.values) # {} =>
                /\ trace = <<>>
                /\ ~InHandler
                /\ KeptFrom(p)
                /\ isSubmitting <=> pc \in {"validate", "finish"}

C7_Witness ==
    /\ AttemptOver
    /\ errors # NoErrors
    /\ trace = <<>>
    /\ imagePreview # Null

\* C8: a change event of the image input or of the document input that
\* carries no file changes nothing: the draft, the errors, the preview, the
\* file name and the reads in flight stay as they were.
C8_CancelChangesNothing ==
    [][(lastOp' \in {"image", "document"} /\ lastArg' = Null) =>
          UNCHANGED <<values, errors, isSubmitting, isSubmitted, imagePreview,
                      fileName, readers>>]_vars

C8_Witness ==
    /\ lastOp = "image"
    /\ lastArg = Null
    /\ imagePreview # Null
    /\ values.image # Null
    /\ fileName # Null

\* C9: in every reachable state a present imagePreview implies a present
\* image in the draft (after a reset the preview stays absent until a new
\* image is selected).
C9_PreviewImpliesImage == imagePreview # Null => values.image # Null

\* C10: once every read has completed, the preview is the representation of
\* the file the draft's image field holds.
C10_PreviewMatchesImage ==
    (Reading = {} /\ values.image # Null /\ imagePreview # Null) =>
        imagePreview = {DataURL(f) : f \in values.image}

====
